---- MODULE Spec2Model ----
(***************************************************************************)
(* Model of the EU bond scraping pipeline:                                 *)
(*   src/src/scraping.py   Volume Fetcher, Instrument Extractor and the    *)
(*                         sequential Batch Aggregator                     *)
(*   src/src/analysis.py   Rating Computer and the clean-up step           *)
(*   src/web_scraping.py   the earlier variant with the sequential and the *)
(*                         bounded-concurrency Batch Aggregator            *)
(*                                                                         *)
(* Numbers are integers in hundredths (1.23 million is 123), so that the   *)
(* two-decimal rounding of the code is exact.  A table cell is a tagged    *)
(* value: a float ("num"), NaN/NaT ("nan"), a string that spells a number  *)
(* ("text"), a string that does not ("bad") or a calendar date ("date",    *)
(* in days from today).                                                    *)
(***************************************************************************)
EXTENDS Integers, Sequences, FiniteSets, TLC

VARIABLES
    list_ISIN,       \* the ISIN list handed to the batch call
    env,             \* env[k]: what the remote site answered for entry k
    build,           \* the numpy build: does percentile of nothing raise
    pc,              \* position of the main program
    i,               \* loop index of the sequential strategy
    list_results,    \* list_results of the sequential strategy
    printed,         \* ISINs of the "Could not extract ISIN" diagnostics
    ret,             \* how the batch call ended and what it returned
    final,           \* the table after the clean-up step
    fut,             \* bounded-concurrency strategy: state of each future
    par_ret,         \* bounded-concurrency strategy: what the call returned
    vol_in,          \* Volume Fetcher on its own: the remote answer
    vol_out,         \* Volume Fetcher on its own: the result
    rate_in,         \* Rating Computer on its own: the input table
    rate_out,        \* Rating Computer on its own: the result
    reqs,            \* reqs[k]: requests the running batch call sent for entry k
    slept,           \* time.sleep has run since the last request went out
    flt_fn,          \* Table Filter: which module's filter_df is called
    flt_src,         \* Table Filter: the table object handed in as df2
    flt_arg,         \* Table Filter: the other arguments of the call
    flt_out,         \* Table Filter: how the call ended
    flt_out2,        \* Table Filter: how the call on its own result ended
    html,            \* field extraction: the text of the detail page
    field_out        \* field extraction: the value put into values_list

vars == <<list_ISIN, env, build, pc, i, list_results, printed, ret, final,
          fut, par_ret, vol_in, vol_out, rate_in, rate_out, reqs, slept,
          flt_fn, flt_src, flt_arg, flt_out, flt_out2, html, field_out>>

batchVars == <<list_ISIN, env, pc, i, list_results, printed, ret, final,
               fut, par_ret>>
parVars == <<fut, par_ret>>
volVars == <<vol_in, vol_out>>
rateVars == <<rate_in, rate_out>>
histVars == <<reqs, slept>>
filterVars == <<flt_fn, flt_src, flt_arg, flt_out, flt_out2>>
fieldVars == <<html, field_out>>

----------------------------------------------------------------------------
(* Bounds *)

MaxList == 2
MaxSamples == 3
MaxRows == 4
MaxVolume == 5

----------------------------------------------------------------------------
(* Cell values *)

NaN == [k |-> "nan", v |-> 0]
Num(n) == [k |-> "num", v |-> n]
Text(n) == [k |-> "text", v |-> n]
Bad == [k |-> "bad", v |-> 0]
Date(d) == [k |-> "date", v |-> d]

IsNull(x) == x.k = "nan"

Range(s) == {s[k] : k \in DOMAIN s}

SeqsUpTo(S, n) == UNION {[1..m -> S] : m \in 0..n}

\* Python round(): nearest, ties to even.  n/d with d > 0.
RoundHalfEven(n, d) ==
    LET q == n \div d
        r == n % d
    IN IF 2 * r < d THEN q
       ELSE IF 2 * r > d THEN q + 1
       ELSE IF q % 2 = 0 THEN q ELSE q + 1

----------------------------------------------------------------------------
(* What the remote site can answer *)

\* Raw text of a field as extract_value_after_keyword hands it over.
RawNone == [k |-> "none", v |-> 0]
RawText(n) == [k |-> "rawtext", v |-> n]
RawBad == [k |-> "rawbad", v |-> 0]
RawDate(d) == [k |-> "rawdate", v |-> d]

\* Answers of the charting service: a failed request, or a JSON body.
\*   conn_error, timeout   requests.post raises
\*   http_error            a non-success status; the body carries no data
\*   not_json              the body is not JSON
\*   empty_obj             {}
\*   no_d                  an object without the key "d"
\*   array                 a non-empty JSON array
\*   rows3                 {"d": rows of three entries instead of two}
\*   d                     {"d": [[timestamp, volume], ...]}
VolKinds == {"conn_error", "timeout", "http_error", "not_json", "empty_obj",
             "no_d", "array", "rows3", "d"}

VolAnswer(kind, samples) == [kind |-> kind, samples |-> samples]

\* Raw volumes of the samples, in currency units.
RawVolumes == {0, 4000, 1234567, 2000000, 3000000}

VolResponses ==
    {VolAnswer(kd, <<>>) : kd \in VolKinds \ {"d"}}
    \cup {VolAnswer("d", s) : s \in SeqsUpTo(RawVolumes, MaxSamples)}

----------------------------------------------------------------------------
(* Volume Fetcher, src/src/scraping.py *)

None == [kind |-> "None", samples |-> <<>>]

\* The k-th smallest entry of a non-empty sequence of integers.
KthSmallest(s, k) ==
    CHOOSE x \in Range(s) :
        /\ Cardinality({j \in DOMAIN s : s[j] < x}) < k
        /\ Cardinality({j \in DOMAIN s : s[j] <= x}) >= k

\* Twice the median (pandas Series.median): the middle sample, or the mean
\* of the two middle samples.
Median2(s) ==
    LET n == Len(s)
    IN IF n % 2 = 1 THEN 2 * KthSmallest(s, (n + 1) \div 2)
       ELSE KthSmallest(s, n \div 2) + KthSmallest(s, n \div 2 + 1)

\* A RequestException (connection error, timeout, HTTPError of
\* raise_for_status, JSONDecodeError of response.json) is caught.
fetch_data(r) ==
    IF r.kind \in {"conn_error", "timeout", "http_error", "not_json"}
    THEN None
    ELSE r

VolNone == [st |-> "none", median |-> NaN, min |-> NaN, max |-> NaN]
VolRaise == [st |-> "raise", median |-> NaN, min |-> NaN, max |-> NaN]

\* round(x / 10**6, 2) of the median, the minimum and the maximum; all
\* three are NaN for an empty sample list.
VolStats(s) ==
    IF Len(s) = 0
    THEN [st |-> "stats", median |-> NaN, min |-> NaN, max |-> NaN]
    ELSE [st |-> "stats",
          median |-> Num(RoundHalfEven(Median2(s), 20000)),
          min |-> Num(RoundHalfEven(KthSmallest(s, 1), 10000)),
          max |-> Num(RoundHalfEven(KthSmallest(s, Len(s)), 10000))]

compute_avg_monthly_volume(r) ==
    LET data_json == fetch_data(r)
    IN IF data_json.kind \in {"None", "empty_obj"} THEN VolNone
       ELSE IF data_json.kind = "no_d" THEN VolNone
       ELSE IF data_json.kind \in {"array", "rows3"} THEN VolRaise
       ELSE VolStats(data_json.samples)

\* src/web_scraping.py: nothing is caught, and the body is indexed by "d"
\* whatever the status.
ws_compute_avg_monthly_volume(r) ==
    IF r.kind # "d" THEN VolRaise ELSE VolStats(r.samples)

----------------------------------------------------------------------------
(* Instrument Extractor *)

PageAnswer(page, contracts, price, scad, vol) ==
    [page |-> page, contracts |-> contracts, price |-> price,
     scad |-> scad, vol |-> vol]

MkRow(isin, contracts, price, scad, anni, vol) ==
    [isin |-> isin,
     Numero_Contratti |-> contracts,
     Prezzo_ufficiale |-> price,
     Scadenza |-> scad,
     anni_scadenza |-> anni,
     median_monthly_volume_million |-> vol.median,
     min_monthly_volume_million |-> vol.min,
     max_monthly_volume_million |-> vol.max]

NoRow == MkRow("", NaN, NaN, NaN, NaN, VolNone)

Raised == [st |-> "raise", row |-> NoRow]

\* value.replace(".", "").replace(",", ".") of a non-empty text, NaN for
\* a missing or empty one.
Normalise(raw) ==
    IF raw.k = "none" THEN NaN
    ELSE IF raw.k = "rawtext" THEN Text(raw.v)
    ELSE IF raw.k = "rawdate" THEN [k |-> "datetext", v |-> raw.v]
    ELSE Bad

\* round((maturity - today).days / 365, 2), NaN for NaT.
YearsToMaturity(scad) ==
    IF scad.k = "date" THEN Num(RoundHalfEven(scad.v * 100, 365)) ELSE NaN

\* src/src/scraping.py.  A page that is not fetched leaves values_list
\* unbound, and a volume call without result cannot be unpacked.
extract_single_ISIN(ISIN, r) ==
    IF r.page # "ok" THEN Raised
    ELSE
      LET contracts == Normalise(r.contracts)
          price == Normalise(r.price)
          scadtext == Normalise(r.scad)
      IN IF scadtext.k \notin {"nan", "datetext"} THEN Raised
         ELSE
           LET scad == IF scadtext.k = "nan" THEN NaN ELSE Date(scadtext.v)
               vol == compute_avg_monthly_volume(r.vol)
           IN IF vol.st # "stats" THEN Raised
              ELSE [st |-> "ok",
                    row |-> MkRow(ISIN, contracts, price, scad,
                                  YearsToMaturity(scad), vol)]

\* src/web_scraping.py.  The maturity stays the text of the page.
ws_extract_single_ISIN(ISIN, r) ==
    IF r.page # "ok" THEN Raised
    ELSE
      LET contracts == Normalise(r.contracts)
          price == Normalise(r.price)
          scadtext == Normalise(r.scad)
      IN IF scadtext.k \notin {"nan", "datetext"} THEN Raised
         ELSE
           LET scad == IF scadtext.k = "nan" THEN NaN ELSE Date(scadtext.v)
               vol == ws_compute_avg_monthly_volume(r.vol)
           IN IF vol.st # "stats" THEN Raised
              ELSE [st |-> "ok",
                    row |-> MkRow(ISIN, contracts, price, scadtext,
                                  YearsToMaturity(scad), vol)]

\* requests.get(url) of the detail page: the one request every call of
\* extract_single_ISIN starts with.
PageRequest(q) == [q EXCEPT !.page = @ + 1]

\* compute_avg_monthly_volume, and with it the one requests.get of
\* fetch_data, is reached when the page was served and its maturity parsed.
VolumeRequested(r) ==
    r.page = "ok" /\ Normalise(r.scad).k \in {"nan", "datetext"}

VolumeRequest(q, r) ==
    IF VolumeRequested(r) THEN [q EXCEPT !.vol = @ + 1] ELSE q

----------------------------------------------------------------------------
(* Rating Computer, src/src/analysis.py *)

\* np.arange(1, 100, 1)
FirstPercentile == 1
LastPercentile == 99
Percentiles == FirstPercentile..LastPercentile

WithRating(r, n) ==
    [isin |-> r.isin,
     Numero_Contratti |-> r.Numero_Contratti,
     Prezzo_ufficiale |-> r.Prezzo_ufficiale,
     Scadenza |-> r.Scadenza,
     anni_scadenza |-> r.anni_scadenza,
     median_monthly_volume_million |-> r.median_monthly_volume_million,
     min_monthly_volume_million |-> r.min_monthly_volume_million,
     max_monthly_volume_million |-> r.max_monthly_volume_million,
     ratings |-> n]

\* fillna(0) of one cell
FillNa(x) == IF IsNull(x) THEN Num(0) ELSE x

\* df["median_monthly_volume_million"].fillna(0)
FillMedian(r) ==
    [r EXCEPT !.median_monthly_volume_million = FillNa(@)]

\* np.percentile(vals, np.arange(1, 100, 1)) of a non-empty sequence of
\* integers, times 100: linear interpolation between the two nearest ranks
\* of the sorted values.
np_percentile(vals) ==
    LET a == SortSeq(vals, LAMBDA x, y : x < y)
        n == Len(vals)
    IN [p \in Percentiles |->
          LET h == (n - 1) * p
              lo == h \div 100
              frac == h % 100
          IN IF frac = 0 THEN 100 * a[lo + 1]
             ELSE 100 * a[lo + 1] + frac * (a[lo + 2] - a[lo + 1])]

digitize_left(x100, quantiles) ==
    Cardinality({p \in DOMAIN quantiles : quantiles[p] <= x100})

digitize_decreasing(x100, quantiles) ==
    Cardinality({p \in DOMAIN quantiles : quantiles[p] > x100})

\* np.digitize(x, bins, right=True) for increasing bins: the number of
\* bins below x, so that bins[i-1] < x <= bins[i].
digitize(x100, quantiles) ==
    Cardinality({p \in DOMAIN quantiles : quantiles[p] < x100})

OthersRating_NoIncrement(x100, quantiles) == digitize(x100, quantiles)

\* df_others["ratings"] = np.digitize(...) + 1
OthersRating(x100, quantiles) == digitize(x100, quantiles) + 1

IsZeroVolume(r) == r.median_monthly_volume_million.v = 0
HasVolume(r) == r.median_monthly_volume_million.v # 0

\* The rated table, or an error when the percentiles of an empty group
\* cannot be computed: np.percentile of an empty array raises IndexError
\* on numpy >= 1.22 and yields NaN on older builds.
compute_ratings_volume_new(df2, empty_raises) ==
    LET df == [k \in DOMAIN df2 |-> FillMedian(df2[k])]
        df_null == SelectSeq(df, IsZeroVolume)
        df_others == SelectSeq(df, HasVolume)
        vals == [k \in DOMAIN df_others |->
                     df_others[k].median_monthly_volume_million.v]
    IN IF Len(df_others) = 0
       THEN IF empty_raises
            THEN [st |-> "raise", table |-> <<>>]
            ELSE [st |-> "ok",
                  table |-> [k \in DOMAIN df_null |->
                                 WithRating(df_null[k], 0)]]
       ELSE
         LET quantiles == np_percentile(vals)
         IN [st |-> "ok",
             table |->
               [k \in DOMAIN df_null |-> WithRating(df_null[k], 0)]
               \o [k \in DOMAIN df_others |->
                      WithRating(df_others[k],
                                 OthersRating(100 * vals[k], quantiles))]]

----------------------------------------------------------------------------
(* Sequential Batch Aggregator, src/src/scraping.py *)

\* All orders of the rows of a table.
Perms(t) ==
    LET n == Len(t)
        bij == {f \in [1..n -> 1..n] : \A a, b \in 1..n : f[a] = f[b] => a = b}
    IN {[k \in 1..n |-> t[f[k]]] : f \in bij}

\* df2.sort_values("median_monthly_volume_million", ascending=False): the
\* default quicksort is not stable, rows of equal volume come in any order.
SortedByVolume(t) ==
    {s \in Perms(t) :
        \A a, b \in DOMAIN s :
            a < b => s[a].median_monthly_volume_million.v
                       >= s[b].median_monthly_volume_million.v}

\* The columns that astype(float) runs over: all but Scadenza.
NumericCells(r) ==
    {r.Numero_Contratti, r.Prezzo_ufficiale, r.anni_scadenza,
     r.median_monthly_volume_million, r.min_monthly_volume_million,
     r.max_monthly_volume_million}

Coercible(t) == \A k \in DOMAIN t : \A c \in NumericCells(t[k]) : c.k # "bad"

\* astype(float) of one cell
AsFloat(c) == IF c.k = "text" THEN Num(c.v) ELSE c

CoerceRow(r) ==
    [r EXCEPT !.Numero_Contratti = AsFloat(@),
              !.Prezzo_ufficiale = AsFloat(@),
              !.anni_scadenza = AsFloat(@),
              !.median_monthly_volume_million = AsFloat(@),
              !.min_monthly_volume_million = AsFloat(@),
              !.max_monthly_volume_million = AsFloat(@)]

Running == [st |-> "running", err |-> "", table |-> <<>>]
Failed(err) == [st |-> "raised", err |-> err, table |-> <<>>]
Returned(t) == [st |-> "returned", err |-> "", table |-> t]

\* Lines 332-343: what the tail of extract_multiple_ISIN can end with.
AssembleOutcomes(results, empty_raises) ==
    IF Len(results) = 0 THEN {Failed("concat")}
    ELSE IF ~Coercible(results) THEN {Failed("astype")}
    ELSE
      LET df == [k \in DOMAIN results |-> CoerceRow(results[k])]
          rated == compute_ratings_volume_new(df, empty_raises)
      IN IF rated.st = "raise" THEN {Failed("percentile")}
         ELSE {Returned(s) : s \in SortedByVolume(rated.table)}

\* One pass of the loop of lines 326-330.
LoopStep ==
    /\ pc = "loop"
    /\ i <= Len(list_ISIN)
    /\ LET res == extract_single_ISIN(list_ISIN[i], env[i])
       IN IF res.st = "ok"
          THEN /\ list_results' = Append(list_results, res.row)
               /\ UNCHANGED printed
          ELSE /\ printed' = Append(printed, list_ISIN[i])
               /\ UNCHANGED list_results
    /\ i' = i + 1
    /\ reqs' = [reqs EXCEPT ![i] = VolumeRequest(PageRequest(@), env[i])]
    /\ UNCHANGED <<slept, filterVars, fieldVars,
                   list_ISIN, env, build, pc, ret, final, volVars, rateVars,
                   parVars>>

\* Lines 332-343: concat, coercion, rating, sort, return.
Assemble ==
    /\ pc = "loop"
    /\ i > Len(list_ISIN)
    /\ \E o \in AssembleOutcomes(list_results, build) :
          /\ ret' = o
          /\ pc' = IF o.st = "returned" THEN "returned" ELSE "raised"
    /\ UNCHANGED <<histVars, filterVars, fieldVars,
                   list_ISIN, env, build, i, list_results, printed, final,
                   volVars, rateVars, parVars>>

----------------------------------------------------------------------------
(* Clean-up step, src/src/analysis.py improve_data *)

CleanRow(r, anni) ==
    [isin |-> r.isin,
     volume_mensile_mediano |-> r.median_monthly_volume_million,
     percentili_volume |-> r.ratings,
     Prezzo_ufficiale |-> r.Prezzo_ufficiale,
     anni_scadenza |-> anni,
     Scadenza |-> r.Scadenza,
     Numero_Contratti |-> r.Numero_Contratti,
     volume_mensile_minimo |-> r.min_monthly_volume_million,
     Volume_mensile_massimo |-> r.max_monthly_volume_million]

IsFirst(t, k) == \A j \in 1..(k - 1) : t[j].isin # t[k].isin
IsLast(t, k) == \A j \in (k + 1)..Len(t) : t[j].isin # t[k].isin

RECURSIVE KeepLast(_, _)
KeepLast(t, k) ==
    IF k > Len(t) THEN <<>>
    ELSE IF IsLast(t, k) THEN <<t[k]>> \o KeepLast(t, k + 1)
    ELSE KeepLast(t, k + 1)

\* df.loc[~df.index.duplicated(keep="first")], from row k on
RECURSIVE KeepFirst(_, _)
KeepFirst(t, k) ==
    IF k > Len(t) THEN <<>>
    ELSE IF IsFirst(t, k) THEN <<t[k]>> \o KeepFirst(t, k + 1)
    ELSE KeepFirst(t, k + 1)

CorrectMaturity_EveryRow(c) ==
    IF c.k = "num" THEN Num(c.v + 10000) ELSE c

\* df.loc[df["anni_scadenza"] < 0, "anni_scadenza"] += 100
CorrectMaturity(c) ==
    IF c.k = "num" /\ c.v < 0 THEN Num(c.v + 10000) ELSE c

improve_data(df) ==
    LET dedup == KeepFirst(df, 1)
    IN [k \in DOMAIN dedup |->
           CleanRow(dedup[k], CorrectMaturity(dedup[k].anni_scadenza))]

ImproveData ==
    /\ pc = "returned"
    /\ final' = improve_data(ret.table)
    /\ pc' = "clean"
    /\ UNCHANGED <<histVars, filterVars, fieldVars,
                   list_ISIN, env, build, i, list_results, printed, ret,
                   volVars, rateVars, parVars>>

----------------------------------------------------------------------------
(* Inputs of a batch run *)

ISINS == {"IT0001", "FR0002"}

SomeVolume == VolAnswer("d", <<1234567>>)

Typical(v) ==
    PageAnswer("ok", RawText(500), RawText(9900), RawDate(1825), v)

\* Volume answers of a batch run: one of each path of the Volume Fetcher.
BatchVolumes ==
    {VolAnswer("timeout", <<>>), VolAnswer("no_d", <<>>),
     VolAnswer("array", <<>>), VolAnswer("d", <<>>), VolAnswer("d", <<0>>),
     SomeVolume, VolAnswer("d", <<2000000, 3000000>>)}

\* Page answers of a batch run: a request that raises, a page that is not
\* served, and pages whose fields are present, missing or malformed.
PageResponses ==
    {PageAnswer("exc", RawNone, RawNone, RawNone, SomeVolume),
     PageAnswer("non200", RawNone, RawNone, RawNone, SomeVolume)}
    \cup {Typical(v) : v \in BatchVolumes}
    \cup {PageAnswer("ok", RawNone, RawText(9900), RawDate(1825), SomeVolume),
          PageAnswer("ok", RawText(500), RawNone, RawDate(1825), SomeVolume),
          PageAnswer("ok", RawText(500), RawBad, RawDate(1825), SomeVolume),
          PageAnswer("ok", RawText(500), RawText(9900), RawNone, SomeVolume),
          PageAnswer("ok", RawText(500), RawText(9900), RawBad, SomeVolume),
          PageAnswer("ok", RawText(500), RawText(9900), RawDate(-1168),
                     SomeVolume)}

IdleVol ==
    /\ vol_in = VolAnswer("d", <<>>)
    /\ vol_out = VolNone

IdleRate ==
    /\ rate_in = <<>>
    /\ rate_out = Running

NoRequests == [page |-> 0, vol |-> 0]

\* Nothing has been requested yet.
NoneSent ==
    /\ reqs = [k \in DOMAIN list_ISIN |-> NoRequests]
    /\ slept = TRUE

IdleFilter ==
    /\ flt_fn = "analysis"
    /\ flt_src = <<>>
    /\ flt_arg = <<>>
    /\ flt_out = Running
    /\ flt_out2 = Running

FieldPending == [k |-> "pending", v |-> <<>>]

IdleField ==
    /\ html = <<>>
    /\ field_out = FieldPending

Idle == IdleFilter /\ IdleField

Init ==
    /\ list_ISIN \in SeqsUpTo(ISINS, MaxList)
    /\ env \in [DOMAIN list_ISIN -> PageResponses]
    /\ build \in BOOLEAN
    /\ pc = "loop"
    /\ i = 1
    /\ list_results = <<>>
    /\ printed = <<>>
    /\ ret = Running
    /\ final = <<>>
    /\ fut = <<>>
    /\ par_ret = Running
    /\ IdleVol
    /\ IdleRate
    /\ NoneSent
    /\ Idle

Next == LoopStep \/ Assemble \/ ImproveData

Spec == Init /\ [][Next]_vars

----------------------------------------------------------------------------
(* Claims about the sequential batch run (Spec) *)

Succeeds(k) == extract_single_ISIN(list_ISIN[k], env[k]).st = "ok"

BatchEnded == pc # "loop"

IsinsOf(t) == {t[k].isin : k \in DOMAIN t}

\* How many rows of table t carry the ISIN x
Count(t, x) == Cardinality({k \in DOMAIN t : t[k].isin = x})

\* C1: for a non-empty ISIN list and whatever subset of its extractions
\* raises, a batch call whose assembled cells are all numeric ends by
\* returning a table: no exception escapes, one diagnostic is printed per
\* failing entry, and the table holds exactly one record per entry whose
\* extraction succeeded and none for the failing ones.
C1_NoExceptionEscapes ==
    (BatchEnded /\ Len(list_ISIN) > 0 /\ Coercible(list_results)) =>
        /\ ret.st = "returned"
        /\ Len(printed)
             = Cardinality({k \in DOMAIN list_ISIN : ~Succeeds(k)})
        /\ \A x \in ISINS :
              /\ Count(ret.table, x)
                   = Cardinality({k \in DOMAIN list_ISIN :
                                     list_ISIN[k] = x /\ Succeeds(k)})
              /\ Cardinality({k \in DOMAIN printed : printed[k] = x})
                   = Cardinality({k \in DOMAIN list_ISIN :
                                     list_ISIN[k] = x /\ ~Succeeds(k)})

\* The detail page of entry k is served and read, and the volume call
\* yields no result.
VolumeMissing(k) ==
    /\ env[k].page = "ok"
    /\ env[k].scad.k # "rawbad"
    /\ compute_avg_monthly_volume(env[k].vol).st = "none"

NullStats(r) ==
    /\ IsNull(r.median_monthly_volume_million)
    /\ IsNull(r.min_monthly_volume_million)
    /\ IsNull(r.max_monthly_volume_million)

\* C2: an entry whose detail page is fetched and whose volume call yields
\* no result still gets a record, with the three monthly-volume statistics
\* null: once the loop has passed the entry, list_results holds it.
C2_NullVolumeKept ==
    \A k \in DOMAIN list_ISIN :
        (k < i /\ VolumeMissing(k)) =>
            \E j \in DOMAIN list_results :
                /\ list_results[j].isin = list_ISIN[k]
                /\ NullStats(list_results[j])

\* The final row fr is the cleaned form of the extracted row lr.
FromExtraction(fr, lr) ==
    /\ fr.isin = lr.isin
    /\ fr.Numero_Contratti = AsFloat(lr.Numero_Contratti)
    /\ fr.Prezzo_ufficiale = AsFloat(lr.Prezzo_ufficiale)
    /\ fr.Scadenza = lr.Scadenza
    /\ fr.anni_scadenza = CorrectMaturity(lr.anni_scadenza)
    /\ fr.volume_mensile_mediano = FillNa(lr.median_monthly_volume_million)
    /\ fr.volume_mensile_minimo = lr.min_monthly_volume_million
    /\ fr.Volume_mensile_massimo = lr.max_monthly_volume_million

OnePerIsin(t) ==
    /\ \A a, b \in DOMAIN t : t[a].isin = t[b].isin => a = b
    /\ IsinsOf(t) = IsinsOf(list_results)

FirstExtracted(x) ==
    list_results[CHOOSE k \in DOMAIN list_results :
                    /\ list_results[k].isin = x
                    /\ \A j \in 1..(k - 1) : list_results[j].isin # x]

FilledMedian(r) == FillNa(r.median_monthly_volume_million).v

\* The extractions of ISIN x all differ in median volume, so that the order
\* of its rows after the sort does not rest on how ties are broken.
DistinctVolumes(x) ==
    \A a, b \in DOMAIN list_results :
        (list_results[a].isin = x /\ list_results[b].isin = x /\ a # b) =>
            FilledMedian(list_results[a]) # FilledMedian(list_results[b])

\* C5 as stated: the cleaned table holds exactly one record per ISIN, and
\* for an ISIN extracted more than once it is the record extracted first
\* (looked at for the ISINs whose extractions differ in median volume).
C5_FirstExtractedWins ==
    pc = "clean" =>
        /\ OnePerIsin(final)
        /\ \A k \in DOMAIN final :
              DistinctVolumes(final[k].isin) =>
                 FromExtraction(final[k], FirstExtracted(final[k].isin))

\* C5 as amended: the cleaned table holds exactly one record per extracted
\* ISIN, and for an ISIN extracted more than once it is a record that the
\* descending sort on median monthly volume put first: one of the ISIN's
\* extracted records, of the greatest median volume among them.
C5_FirstOfSortedWins ==
    pc = "clean" =>
        /\ OnePerIsin(final)
        /\ \A k \in DOMAIN final :
              \E j \in DOMAIN list_results :
                 /\ FromExtraction(final[k], list_results[j])
                 /\ \A h \in DOMAIN list_results :
                       list_results[h].isin = final[k].isin =>
                          FilledMedian(list_results[h])
                             <= FilledMedian(list_results[j])

\* An ISIN was extracted twice, the second time with the greater volume.
C5_Witness ==
    /\ pc = "clean"
    /\ \E a, b \in DOMAIN list_results :
          /\ a < b
          /\ list_results[a].isin = list_results[b].isin
          /\ FilledMedian(list_results[a]) < FilledMedian(list_results[b])
          /\ \E k \in DOMAIN final : FromExtraction(final[k], list_results[b])

\* C6: a cell outside the maturity date that cannot be coerced to a number
\* makes the batch call fail as a whole, without any table, and no other
\* failure ends the batch call.
C6_OnlyCoercionIsFatal ==
    (BatchEnded /\ Len(list_ISIN) > 0) =>
        /\ ~Coercible(list_results) => (ret.st = "raised" /\ ret.table = <<>>)
        /\ ret.st = "raised" => ~Coercible(list_results)

\* The first half of C6 alone: a cell that cannot be coerced is fatal.
CoercionIsFatal ==
    (BatchEnded /\ ~Coercible(list_results)) =>
        (ret.st = "raised" /\ ret.err = "astype" /\ ret.table = <<>>)

----------------------------------------------------------------------------
(* The Volume Fetcher on its own (SpecVol) *)

VolPending == [st |-> "pending", median |-> NaN, min |-> NaN, max |-> NaN]

IdleBatch ==
    /\ list_ISIN = <<>>
    /\ env = <<>>
    /\ pc = "idle"
    /\ i = 1
    /\ list_results = <<>>
    /\ printed = <<>>
    /\ ret = Running
    /\ final = <<>>
    /\ fut = <<>>
    /\ par_ret = Running

InitVol ==
    /\ vol_in \in VolResponses
    /\ vol_out = VolPending
    /\ build = TRUE
    /\ IdleBatch
    /\ IdleRate
    /\ NoneSent
    /\ Idle

\* One call of compute_avg_monthly_volume(ISIN).
FetchVolume ==
    /\ vol_out = VolPending
    /\ vol_out' = compute_avg_monthly_volume(vol_in)
    /\ UNCHANGED <<histVars, filterVars, fieldVars,
                   vol_in, build, batchVars, rateVars>>

NextVol == FetchVolume

SpecVol == InitVol /\ [][NextVol]_vars

\* The answers that carry no data list: a failed request, a non-success
\* status, a body that is not JSON or has another shape.
NoResultKinds == {"conn_error", "timeout", "http_error", "not_json",
                  "empty_obj", "no_d", "array"}

\* C3: whenever the remote call fails or its body lacks the data list,
\* compute_avg_monthly_volume returns None and does not raise.
C3_NeverRaises ==
    (vol_out # VolPending /\ vol_in.kind \in NoResultKinds) =>
        vol_out = VolNone

----------------------------------------------------------------------------
(* The Rating Computer on its own (SpecRate) *)

ISINNames == <<"IT0001", "FR0002", "XS0003", "DE0004", "NL0005", "ES0006",
               "BE0007", "AT0008">>

\* Median monthly volumes of the input table: null, zero, and some more.
MedianCells == {NaN} \cup {Num(v) : v \in 0..MaxVolume}

VolumeRow(k, m) ==
    MkRow(ISINNames[k], Num(500), Num(9900), Date(1825), Num(500),
          [st |-> "stats", median |-> m, min |-> m, max |-> m])

InitRate ==
    /\ \E ms \in SeqsUpTo(MedianCells, MaxRows) :
          rate_in = [k \in DOMAIN ms |-> VolumeRow(k, ms[k])]
    /\ rate_out = Running
    /\ build \in BOOLEAN
    /\ IdleBatch
    /\ IdleVol
    /\ NoneSent
    /\ Idle

\* One call of compute_ratings_volume_new(df).
Rate ==
    /\ rate_out = Running
    /\ LET res == compute_ratings_volume_new(rate_in, build)
       IN rate_out' = IF res.st = "ok" THEN Returned(res.table)
                      ELSE Failed("percentile")
    /\ UNCHANGED <<histVars, filterVars, fieldVars,
                   rate_in, build, batchVars, volVars>>

NextRate == Rate

SpecRate == InitRate /\ [][NextRate]_vars

\* The input row of the ISIN x
InputOf(x) == rate_in[CHOOSE k \in DOMAIN rate_in : rate_in[k].isin = x]

ZeroOrNull(c) == IsNull(c) \/ c.v = 0

Rated == rate_out.st = "returned"

\* C7: after compute_ratings_volume_new every record has an integer rating
\* in [0,100], and the rating is 0 exactly when the record's median monthly
\* volume is 0 or null.
C7_RatingRange ==
    Rated =>
        /\ Len(rate_out.table) = Len(rate_in)
        /\ \A k \in DOMAIN rate_out.table :
              LET r == rate_out.table[k]
              IN /\ r.ratings \in 0..100
                 /\ r.ratings = 0 <=>
                      ZeroOrNull(InputOf(r.isin).median_monthly_volume_million)

\* A rated table with a null-volume record at 0 and a traded one above 0.
C7_Witness ==
    /\ Rated
    /\ \E a, b \in DOMAIN rate_out.table :
          /\ IsNull(InputOf(rate_out.table[a].isin).median_monthly_volume_million)
          /\ rate_out.table[a].ratings = 0
          /\ rate_out.table[b].ratings > 0

\* The median volumes of the has-volume group of the input.
GroupVolumes ==
    LET others == SelectSeq(rate_in,
                    LAMBDA r : ~ZeroOrNull(r.median_monthly_volume_million))
    IN [k \in DOMAIN others |-> others[k].median_monthly_volume_million.v]

\* The 99 breakpoints of the has-volume group (times 100).
Breakpoints == np_percentile(GroupVolumes)

\* 1-based index of the first breakpoint in q that x does not exceed, 100
\* when x exceeds all 99 of them.
FirstNotExceeded(x100, q) ==
    LET notExceeded == {p \in Percentiles : x100 <= q[p]}
    IN IF notExceeded = {} THEN 100
       ELSE CHOOSE p \in notExceeded : \A o \in notExceeded : p <= o

\* C8: a record with non-zero median volume is rated 1 + the (0-based)
\* index of the first of the 99 breakpoints of the has-volume group that
\* its volume does not exceed, 100 when it exceeds them all; a volume equal
\* to a breakpoint is in that breakpoint's bucket; the rating is in [1,100].
C8_FirstBreakpoint ==
    Rated =>
        LET q == IF Len(GroupVolumes) = 0 THEN <<>> ELSE Breakpoints
        IN \A k \in DOMAIN rate_out.table :
              LET r == rate_out.table[k]
                  x100 == 100 * r.median_monthly_volume_million.v
              IN r.median_monthly_volume_million.v # 0 =>
                    /\ r.ratings = FirstNotExceeded(x100, q)
                    /\ r.ratings \in 1..100
                    /\ \A p \in Percentiles : x100 = q[p] => r.ratings <= p

\* One record sits on a breakpoint above the first, another exceeds all.
C8_Witness ==
    /\ Rated
    /\ \E a, b \in DOMAIN rate_out.table :
          /\ rate_out.table[a].ratings = 100
          /\ rate_out.table[b].ratings \in 2..99
          /\ 100 * rate_out.table[b].median_monthly_volume_million.v
               = Breakpoints[rate_out.table[b].ratings]

\* C9: of two records with non-zero median volumes, the one with the
\* greater volume has the greater or the same rating.
C9_Monotonic ==
    Rated =>
        \A a, b \in DOMAIN rate_out.table :
            LET ra == rate_out.table[a]
                rb == rate_out.table[b]
            IN (/\ ra.median_monthly_volume_million.v # 0
                /\ rb.median_monthly_volume_million.v # 0
                /\ ra.median_monthly_volume_million.v
                     > rb.median_monthly_volume_million.v)
               => ra.ratings >= rb.ratings

\* Two traded records of different volume and different rating.
C9_Witness ==
    /\ Rated
    /\ \E a, b \in DOMAIN rate_out.table :
          /\ rate_out.table[b].median_monthly_volume_million.v # 0
          /\ rate_out.table[a].median_monthly_volume_million.v
               > rate_out.table[b].median_monthly_volume_million.v
          /\ rate_out.table[a].ratings > rate_out.table[b].ratings

AllZeroVolume ==
    /\ Len(rate_in) > 0
    /\ \A k \in DOMAIN rate_in :
          ZeroOrNull(rate_in[k].median_monthly_volume_million)

\* C10: on a batch whose records all have zero or null median volume,
\* compute_ratings_volume_new completes without error and returns every
\* record with rating 0.
C10_AllZero ==
    (rate_out # Running /\ AllZeroVolume) =>
        /\ Rated
        /\ Len(rate_out.table) = Len(rate_in)
        /\ \A k \in DOMAIN rate_out.table : rate_out.table[k].ratings = 0

----------------------------------------------------------------------------
(* The two strategies of src/web_scraping.py over the same list and the    *)
(* same answers of the remote site (SpecWS): the sequential call first,    *)
(* the bounded-concurrency call after it.                                  *)

\* ThreadPoolExecutor(max_workers=5)
max_workers == 5

\* df.fillna(0, inplace=True) of one row
FillRow(r) ==
    [isin |-> r.isin,
     Numero_Contratti |-> FillNa(r.Numero_Contratti),
     Prezzo_ufficiale |-> FillNa(r.Prezzo_ufficiale),
     Scadenza |-> FillNa(r.Scadenza),
     anni_scadenza |-> FillNa(r.anni_scadenza),
     median_monthly_volume_million |-> FillNa(r.median_monthly_volume_million),
     min_monthly_volume_million |-> FillNa(r.min_monthly_volume_million),
     max_monthly_volume_million |-> FillNa(r.max_monthly_volume_million)]

\* compute_ratings_volume_new of src/web_scraping.py: every null cell is
\* filled with 0, the rest is the Rating Computer of src/src/analysis.py.
ws_compute_ratings_volume_new(df2, empty_raises) ==
    compute_ratings_volume_new([k \in DOMAIN df2 |-> FillRow(df2[k])],
                               empty_raises)

\* Lines 217-228: what the tail of extract_multiple_ISIN can end with.
WsAssembleOutcomes(results, empty_raises) ==
    IF Len(results) = 0 THEN {Failed("concat")}
    ELSE IF ~Coercible(results) THEN {Failed("astype")}
    ELSE
      LET df == [k \in DOMAIN results |-> CoerceRow(results[k])]
          rated == ws_compute_ratings_volume_new(df, empty_raises)
      IN IF rated.st = "raise" THEN {Failed("percentile")}
         ELSE {Returned(s) : s \in SortedByVolume(rated.table)}

\* One pass of the loop of lines 211-215.
WsLoopStep ==
    /\ pc = "ws_loop"
    /\ i <= Len(list_ISIN)
    /\ LET res == ws_extract_single_ISIN(list_ISIN[i], env[i])
       IN IF res.st = "ok"
          THEN /\ list_results' = Append(list_results, res.row)
               /\ UNCHANGED printed
          ELSE /\ printed' = Append(printed, list_ISIN[i])
               /\ UNCHANGED list_results
    /\ i' = i + 1
    /\ reqs' = [reqs EXCEPT ![i] = VolumeRequest(PageRequest(@), env[i])]
    /\ UNCHANGED <<slept, filterVars, fieldVars,
                   list_ISIN, env, build, pc, ret, final, volVars, rateVars,
                   parVars>>

\* Lines 217-228: concat, coercion, rating, sort, return.
WsAssemble ==
    /\ pc = "ws_loop"
    /\ i > Len(list_ISIN)
    /\ \E o \in WsAssembleOutcomes(list_results, build) : ret' = o
    /\ pc' = "ws_done"
    /\ UNCHANGED <<histVars, filterVars, fieldVars,
                   list_ISIN, env, build, i, list_results, printed, final,
                   volVars, rateVars, parVars>>

\* Lines 232-236: extract_multiple_ISIN_parallel starts with an empty
\* list_results and a fresh executor.
ParBegin ==
    /\ pc \in {"ws_done", "par_call"}
    /\ list_results' = <<>>
    /\ i' = 1
    /\ fut' = [k \in DOMAIN list_ISIN |-> "new"]
    /\ pc' = IF Len(list_ISIN) = 0 THEN "collect" ELSE "submit"
    /\ reqs' = [k \in DOMAIN list_ISIN |-> NoRequests]
    /\ slept' = TRUE
    /\ UNCHANGED <<filterVars, fieldVars,
                   list_ISIN, env, build, printed, ret, final, par_ret,
                   volVars, rateVars>>

\* Lines 237-239: executor.submit of the next ISIN of the list.
Submit ==
    /\ pc = "submit"
    /\ fut' = [fut EXCEPT ![i] = "pending"]
    /\ i' = i + 1
    /\ pc' = IF i = Len(list_ISIN) THEN "collect" ELSE "submit"
    /\ UNCHANGED <<histVars, filterVars, fieldVars,
                   list_ISIN, env, build, list_results, printed, ret, final,
                   par_ret, volVars, rateVars>>

InFlight == {k \in DOMAIN fut : fut[k] = "running"}

FreeWorker_Always == TRUE

\* The pool has a thread that is not running a work item.
FreeWorker == Cardinality(InFlight) < max_workers

\* A free worker of the pool takes the oldest queued work item and sends
\* the request for the detail page.
WorkerStart(k) ==
    /\ fut[k] = "pending"
    /\ \A j \in 1..(k - 1) : fut[j] # "pending"
    /\ FreeWorker
    /\ fut' = [fut EXCEPT ![k] = "running"]
    /\ reqs' = [reqs EXCEPT ![k] = PageRequest(@)]
    /\ slept' = FALSE
    /\ UNCHANGED <<filterVars, fieldVars,
                   list_ISIN, env, build, pc, i, list_results, printed, ret,
                   final, par_ret, volVars, rateVars>>

\* The worker's extract_single_ISIN returns or raises: the future is done.
WorkerFinish(k) ==
    /\ fut[k] = "running"
    /\ fut' = [fut EXCEPT ![k] = "done"]
    /\ reqs' = [reqs EXCEPT ![k] = VolumeRequest(@, env[k])]
    /\ UNCHANGED <<slept, filterVars, fieldVars,
                   list_ISIN, env, build, pc, i, list_results, printed, ret,
                   final, par_ret, volVars, rateVars>>

Collected_Twice(results, res) ==
    IF res.st = "ok" THEN Append(Append(results, res.row), res.row)
    ELSE results

\* Lines 243-246: list_results.append(result) of a future that has one.
Collected(results, res) ==
    IF res.st = "ok" THEN Append(results, res.row) ELSE results

AfterCollect_Requeue(res) == IF res.st = "ok" THEN "yielded" ELSE "pending"

\* as_completed hands every future over once, whatever its outcome.
AfterCollect(res) == "yielded"

\* Lines 241-252: as_completed yields a finished future, its result is
\* appended or its exception printed.
Collect(k) ==
    /\ pc = "collect"
    /\ fut[k] = "done"
    /\ LET res == ws_extract_single_ISIN(list_ISIN[k], env[k])
       IN /\ list_results' = Collected(list_results, res)
          /\ printed' = IF res.st = "ok" THEN printed
                        ELSE Append(printed, list_ISIN[k])
          /\ fut' = [fut EXCEPT ![k] = AfterCollect(res)]
    /\ pc' = "sleep"
    /\ UNCHANGED <<histVars, filterVars, fieldVars,
                   list_ISIN, env, build, i, ret, final, par_ret, volVars,
                   rateVars>>

\* Line 254: time.sleep(0.5)
Sleep ==
    /\ pc = "sleep"
    /\ pc' = "collect"
    /\ slept' = TRUE
    /\ UNCHANGED <<reqs, filterVars, fieldVars,
                   list_ISIN, env, build, i, list_results, printed, ret,
                   final, parVars, volVars, rateVars>>

NoTable == [st |-> "none", err |-> "", table |-> <<>>]

\* Lines 256-260: the concatenated results, or None when there are none.
ParReturn ==
    /\ pc = "collect"
    /\ \A k \in DOMAIN fut : fut[k] = "yielded"
    /\ par_ret' = IF Len(list_results) > 0 THEN Returned(list_results)
                  ELSE NoTable
    /\ pc' = "par_done"
    /\ UNCHANGED <<histVars, filterVars, fieldVars,
                   list_ISIN, env, build, i, list_results, printed, ret,
                   final, fut, volVars, rateVars>>

\* Answers of the remote site in a run of both strategies.
WsResponses ==
    {PageAnswer("exc", RawNone, RawNone, RawNone, SomeVolume),
     Typical(VolAnswer("d", <<0>>)),
     Typical(SomeVolume),
     Typical(VolAnswer("timeout", <<>>)),
     PageAnswer("ok", RawNone, RawText(9900), RawDate(1825), SomeVolume),
     PageAnswer("ok", RawText(500), RawBad, RawDate(1825), SomeVolume)}

InitWS ==
    /\ list_ISIN \in SeqsUpTo(ISINS, MaxList)
    /\ env \in [DOMAIN list_ISIN -> WsResponses]
    /\ build \in BOOLEAN
    /\ pc = "ws_loop"
    /\ i = 1
    /\ list_results = <<>>
    /\ printed = <<>>
    /\ ret = Running
    /\ final = <<>>
    /\ fut = <<>>
    /\ par_ret = Running
    /\ IdleVol
    /\ IdleRate
    /\ NoneSent
    /\ Idle

NextWS ==
    \/ WsLoopStep
    \/ WsAssemble
    \/ ParBegin
    \/ Submit
    \/ \E k \in DOMAIN fut : WorkerStart(k)
    \/ \E k \in DOMAIN fut : WorkerFinish(k)
    \/ \E k \in DOMAIN fut : Collect(k)
    \/ Sleep
    \/ ParReturn

SpecWS == InitWS /\ [][NextWS]_vars

WsSucceeds(k) == ws_extract_single_ISIN(list_ISIN[k], env[k]).st = "ok"

\* How often the record r occurs in the table t
Occurrences(t, r) == Cardinality({k \in DOMAIN t : t[k] = r})

\* C4: over the same ISIN list and the same answers per ISIN, of which at
\* least one extraction succeeds, the sequential and the
\* bounded-concurrency strategy return the same records - the same ISINs
\* with the same fields and values - whatever order the workers finish in.
C4_SameResultSet ==
    (pc = "par_done" /\ \E k \in DOMAIN list_ISIN : WsSucceeds(k)) =>
        /\ ret.st = "returned"
        /\ par_ret.st = "returned"
        /\ \A r \in Range(ret.table) \cup Range(par_ret.table) :
              Occurrences(ret.table, r) = Occurrences(par_ret.table, r)

----------------------------------------------------------------------------
(* The maturity correction of the clean-up step, under Spec *)

\* The rows of the returned table that the clean-up keeps
Kept == KeepFirst(ret.table, 1)

\* Every field but the years to maturity is the one of the rated row.
SameOtherFields(raw, out) ==
    /\ out.isin = raw.isin
    /\ out.Prezzo_ufficiale = raw.Prezzo_ufficiale
    /\ out.Numero_Contratti = raw.Numero_Contratti
    /\ out.Scadenza = raw.Scadenza
    /\ out.volume_mensile_mediano = raw.median_monthly_volume_million
    /\ out.volume_mensile_minimo = raw.min_monthly_volume_million
    /\ out.Volume_mensile_massimo = raw.max_monthly_volume_million
    /\ out.percentili_volume = raw.ratings

IsNegative(c) == c.k = "num" /\ c.v < 0

\* C15: the clean-up adds 100 to the years to maturity of every record
\* whose raw value is negative, leaves every non-negative (or null) value
\* as it is, and the correction changes no other field of any record.
C15_MaturityCorrection ==
    pc = "clean" =>
        /\ Len(final) = Len(Kept)
        /\ \A k \in DOMAIN final :
              LET raw == Kept[k].anni_scadenza
              IN /\ IsNegative(raw) =>
                        final[k].anni_scadenza = Num(raw.v + 100 * 100)
                 /\ ~IsNegative(raw) => final[k].anni_scadenza = raw
                 /\ SameOtherFields(Kept[k], final[k])

\* A cleaned table with a record that was 3.2 years past its maturity and
\* now shows 96.8, next to a record whose 5 years stayed.
C15_Witness ==
    /\ pc = "clean"
    /\ \E k \in DOMAIN final :
          /\ Kept[k].anni_scadenza = Num(-320)
          /\ final[k].anni_scadenza = Num(9680)
    /\ \E k \in DOMAIN final :
          /\ Kept[k].anni_scadenza = Num(500)
          /\ final[k].anni_scadenza = Num(500)

----------------------------------------------------------------------------
(* Table Filter: filter_df of src/src/analysis.py and of                   *)
(* src/web_scraping.py, called on the cleaned table as src/app.py does     *)
(* (SpecFilter)                                                            *)

MaxTable == 2

\* idx[0:2], the two characters that startswith("IT") looks at
Prefix(isin) ==
    CASE isin = "IT0001" -> "IT"
      [] isin = "FR0002" -> "FR"
      [] isin = "XS0003" -> "XS"
      [] OTHER -> ""

\* The columns of the cleaned table; "Volume totale", the default sort
\* field, is renamed by the clean-up and is not one of them.
Columns ==
    {"volume mensile mediano (M)", "percentili volume", "Prezzo ufficiale",
     "anni_scadenza", "Scadenza", "Numero Contratti",
     "volume mensile minimo", "Volume mensile massimo"}

\* df[column] of one row, for the columns the filter reads
Cell(r, column) ==
    CASE column = "anni_scadenza" -> r.anni_scadenza
      [] column = "Prezzo ufficiale" -> r.Prezzo_ufficiale
      [] column = "Numero Contratti" -> r.Numero_Contratti
      [] OTHER -> r.volume_mensile_mediano

\* df.fillna(0, inplace=True) of one row of the cleaned table
FillCleanRow(r) ==
    [r EXCEPT !.volume_mensile_mediano = FillNa(@),
              !.Prezzo_ufficiale = FillNa(@),
              !.anni_scadenza = FillNa(@),
              !.Scadenza = FillNa(@),
              !.Numero_Contratti = FillNa(@),
              !.volume_mensile_minimo = FillNa(@),
              !.Volume_mensile_massimo = FillNa(@)]

fillna(df) == [k \in DOMAIN df |-> FillCleanRow(df[k])]

\* cell <= n and cell >= n of a float column: False for a null cell
Le(c, n) == c.k = "num" /\ c.v <= n
Ge(c, n) == c.k = "num" /\ c.v >= n

\* The mask of the four range tests
Mask(r, a) ==
    /\ Le(r.anni_scadenza, a.anni_scadenza_max)
    /\ Ge(r.anni_scadenza, a.anni_scadenza_min)
    /\ Le(r.Prezzo_ufficiale, a.prezzo_max)
    /\ Ge(r.Numero_Contratti, a.ncontratti_min)

\* sub_df[~sub_df.index.str.startswith(p)]
NotStartingWith(t, p) == SelectSeq(t, LAMBDA r : Prefix(r.isin) # p)

\* sub_df.loc[labels, :]: for each label in turn, the rows that carry it
RECURSIVE loc(_, _)
loc(t, labels) ==
    IF labels = <<>> THEN <<>>
    ELSE SelectSeq(t, LAMBDA r : r.isin = Head(labels))
            \o loc(t, Tail(labels))

\* The loop that collects the labels idx with idx[0:2] != p
SelectedIndex(t, p) ==
    LET kept == NotStartingWith(t, p)
    IN [k \in DOMAIN kept |-> kept[k].isin]

\* In a descending sort with the nulls last, x may stand before y.
Precedes(x, y) ==
    IF IsNull(x) THEN IsNull(y) ELSE IsNull(y) \/ x.v >= y.v

sort_values_AnyOrder(t, by) == Perms(t)

\* sub_df.sort_values(by, ascending=False): the default quicksort is not
\* stable, rows of equal value come in any order.
sort_values(t, by) ==
    {s \in Perms(t) :
        \A a, b \in DOMAIN s :
            a < b => Precedes(Cell(s[a], by), Cell(s[b], by))}

KeyError(key) ==
    [st |-> "raised", err |-> "KeyError", key |-> key, table |-> <<>>]

SortOutcomes_Unsorted(t, by) ==
    IF by \notin Columns THEN {Returned(t)}
    ELSE {Returned(s) : s \in sort_values(t, by)}

\* The last two lines: the sort raises KeyError(by) for a label that is
\* not a column, else the sorted table is returned.
SortOutcomes(t, by) ==
    IF by \notin Columns THEN {KeyError(by)}
    ELSE {Returned(s) : s \in sort_values(t, by)}

\* src/src/analysis.py: null cells stay null and fail every range test.
filter_df(df2, a) ==
    LET sub_df == SelectSeq(df2, LAMBDA r : Mask(r, a))
        noBTP == IF a.escludi_BTP THEN NotStartingWith(sub_df, "IT")
                 ELSE sub_df
        noXS == IF a.escludi_XS THEN NotStartingWith(noBTP, "XS") ELSE noBTP
    IN SortOutcomes(noXS, a.sort_by)

\* src/web_scraping.py: the null cells of the copy are filled with 0
\* before the range tests; its second flag is called escludi_romania.
ws_filter_df(df2, a) ==
    LET df == fillna(df2)
        sub_df == SelectSeq(df, LAMBDA r : Mask(r, a))
        noBTP == IF a.escludi_BTP THEN loc(sub_df, SelectedIndex(sub_df, "IT"))
                 ELSE sub_df
        noXS == IF a.escludi_XS THEN loc(noBTP, SelectedIndex(noBTP, "XS"))
                ELSE noBTP
    IN SortOutcomes(noXS, a.sort_by)

FilterOutcomes(fn, df2, a) ==
    IF fn = "web_scraping" THEN ws_filter_df(df2, a) ELSE filter_df(df2, a)

SourceAfter_InPlace(fn, df2) ==
    IF fn = "web_scraping" THEN fillna(df2) ELSE df2

\* df = df2.copy(): every later step works on the copy, the table object
\* that was handed in keeps its cells.
SourceAfter(fn, df2) == df2

\* One call of filter_df on the source table.
FilterTable ==
    /\ flt_arg # <<>>
    /\ flt_out.st = "running"
    /\ \E o \in FilterOutcomes(flt_fn, flt_src, flt_arg) : flt_out' = o
    /\ flt_src' = SourceAfter(flt_fn, flt_src)
    /\ UNCHANGED <<flt_fn, flt_arg, flt_out2, build, batchVars, volVars,
                   rateVars, histVars, fieldVars>>

\* A second call, with the same arguments, on the table the first returned.
FilterAgain ==
    /\ flt_out.st = "returned"
    /\ flt_out2.st = "running"
    /\ \E o \in FilterOutcomes(flt_fn, flt_out.table, flt_arg) : flt_out2' = o
    /\ flt_out' = [flt_out EXCEPT !.table = SourceAfter(flt_fn, @)]
    /\ UNCHANGED <<flt_fn, flt_src, flt_arg, build, batchVars, volVars,
                   rateVars, histVars, fieldVars>>

\* Cells of a record of the source table: the typical record, on the
\* edges of the ranges, and each field in turn out of range or null.
FilterCells ==
    LET typical == [anni |-> Num(200), price |-> Num(10000),
                    contracts |-> Num(500)]
    IN {typical}
       \cup {[typical EXCEPT !.anni = c] : c \in {NaN, Num(100), Num(700),
                                                   Num(800)}}
       \cup {[typical EXCEPT !.price = c] : c \in {NaN, Num(10100)}}
       \cup {[typical EXCEPT !.contracts = c] : c \in {NaN, Num(400)}}

FilterRow(isin, c) ==
    CleanRow(WithRating(MkRow(isin, c.contracts, c.price, Date(1825), c.anni,
                              [st |-> "stats", median |-> Num(123),
                               min |-> Num(123), max |-> Num(123)]), 50),
             c.anni)

\* The cleaned table holds one record per ISIN.
FilterISINS == {"IT0001", "FR0002", "XS0003"}

FilterTables ==
    LET names == {n \in SeqsUpTo(FilterISINS, MaxTable) :
                     \A a, b \in DOMAIN n : n[a] = n[b] => a = b}
    IN UNION {{[k \in DOMAIN n |-> FilterRow(n[k], cs[k])] :
                   cs \in [DOMAIN n -> FilterCells]} : n \in names}

\* Maturity of 2 to 7 years and a price of at most 100; app.py passes
\* ncontratti_min = 0.
FilterArgs ==
    [anni_scadenza_min : {200}, anni_scadenza_max : {700},
     prezzo_max : {10000}, ncontratti_min : {0, 500},
     sort_by : {"anni_scadenza", "Volume totale"},
     escludi_BTP : BOOLEAN, escludi_XS : BOOLEAN]

InitFilter ==
    /\ flt_fn \in {"analysis", "web_scraping"}
    /\ flt_src \in FilterTables
    /\ flt_arg \in FilterArgs
    /\ flt_out = Running
    /\ flt_out2 = Running
    /\ build = TRUE
    /\ IdleBatch
    /\ IdleVol
    /\ IdleRate
    /\ NoneSent
    /\ IdleField

NextFilter == FilterTable \/ FilterAgain

SpecFilter == InitFilter /\ [][NextFilter]_vars

----------------------------------------------------------------------------
(* Claims about the Table Filter, under SpecFilter *)

\* The record of the source table satisfies every criterion of the call.
Satisfies(r, a) ==
    /\ r.anni_scadenza.k = "num"
    /\ r.anni_scadenza.v >= a.anni_scadenza_min
    /\ r.anni_scadenza.v <= a.anni_scadenza_max
    /\ r.Prezzo_ufficiale.k = "num"
    /\ r.Prezzo_ufficiale.v <= a.prezzo_max
    /\ r.Numero_Contratti.k = "num"
    /\ r.Numero_Contratti.v >= a.ncontratti_min
    /\ a.escludi_BTP => Prefix(r.isin) # "IT"
    /\ a.escludi_XS => Prefix(r.isin) # "XS"

\* The table holds exactly the records of the source that satisfy a.
ExactlyTheSatisfying(src, table, a) ==
    \A r \in Range(src) \cup Range(table) :
        Occurrences(table, r) =
            IF Satisfies(r, a) THEN Occurrences(src, r) ELSE 0

\* C11: a call of filter_df that returns, returns exactly those records of
\* the source table whose years to maturity lie in [min, max], whose
\* official price is at most the maximum, whose contract count is at least
\* the minimum, and whose ISIN does not start with "IT" / "XS" when the
\* respective exclusion is on.
C11_ExactlyTheSatisfying ==
    flt_out.st = "returned" =>
        ExactlyTheSatisfying(flt_src, flt_out.table, flt_arg)

\* The same statement for filter_df of src/src/analysis.py alone, which
\* does not fill the null cells.
AnalysisFilterSelects ==
    (flt_fn = "analysis" /\ flt_out.st = "returned") =>
        ExactlyTheSatisfying(flt_src, flt_out.table, flt_arg)

\* Of IT0001 and FR0002, both with 2 to 7 years
\* and a price within the maximum, only FR0002 remains under exclusion.
FilterExample ==
    /\ flt_out.st = "returned"
    /\ flt_arg.escludi_BTP /\ flt_arg.escludi_XS
    /\ {flt_src[k].isin : k \in DOMAIN flt_src} = {"IT0001", "FR0002"}
    /\ \A k \in DOMAIN flt_src : Satisfies(flt_src[k], [flt_arg EXCEPT
                                     !.escludi_BTP = FALSE])
    /\ Len(flt_out.table) = 1
    /\ flt_out.table[1].isin = "FR0002"

C13_SourceNotMutated ==
    [][/\ flt_src' = flt_src
       /\ flt_out.st = "returned" => flt_out' = flt_out]_vars

\* filter_df of web_scraping.py has returned a record with a 0 that is
\* still a null cell in the source table, and a raising call has left a
\* source table with a null cell as it was.
C13_Witness ==
    /\ flt_fn = "web_scraping"
    /\ flt_out.st = "returned"
    /\ \E k \in DOMAIN flt_src, j \in DOMAIN flt_out.table :
          /\ flt_src[k].isin = flt_out.table[j].isin
          /\ IsNull(flt_src[k].Prezzo_ufficiale)
          /\ flt_out.table[j].Prezzo_ufficiale = Num(0)

\* C14: a call whose sort field is not a column of the table - the
\* default "Volume totale" on the cleaned table included - raises an error
\* that names the unknown sort key and returns no table.
C14_UnknownSortKey ==
    (flt_out.st # "running" /\ flt_arg.sort_by \notin Columns) =>
        /\ flt_out.st = "raised"
        /\ flt_out.err = "KeyError"
        /\ flt_out.key = flt_arg.sort_by
        /\ flt_out.table = <<>>

\* A call with the default sort field on a table with records that pass
\* the filter has raised.
C14_Witness ==
    /\ flt_arg.sort_by = "Volume totale"
    /\ flt_out.st = "raised"
    /\ \E k \in DOMAIN flt_src : Satisfies(flt_src[k], flt_arg)

----------------------------------------------------------------------------
(* Field extraction and locale normalisation of src/src/scraping.py, one   *)
(* character at a time (SpecField).  A page is a sequence of characters,   *)
(* in which the label, the opening tag of the value span and the closing   *)
(* tag each count as one character.                                        *)

MaxText == 3

Label == "KW"
SpanOpen == "OPEN"
SpanClose == "CLOSE"

Str(s) == [k |-> "str", v |-> s]
NoValue == [k |-> "none", v |-> <<>>]
FieldNull == [k |-> "nan", v |-> <<>>]

\* html_text.find(c, start): the first position from start on that holds
\* c, 0 when there is none (the -1 of Python).
find(h, c, start) ==
    LET hits == {k \in DOMAIN h : k >= start /\ h[k] = c}
    IN IF hits = {} THEN 0
       ELSE CHOOSE k \in hits : \A j \in hits : k <= j

\* value.strip()
RECURSIVE lstrip(_)
lstrip(s) ==
    IF s # <<>> /\ Head(s) = " " THEN lstrip(Tail(s)) ELSE s

RECURSIVE rstrip(_)
rstrip(s) ==
    IF s # <<>> /\ s[Len(s)] = " " THEN rstrip(SubSeq(s, 1, Len(s) - 1))
    ELSE s

strip(s) == rstrip(lstrip(s))

\* Lines 48-59.  Without a closing tag span_end is -1 and the slice ends
\* one character before the end of the page.
extract_value_after_keyword(keyword, html_text) ==
    LET start_index == find(html_text, keyword, 1)
    IN IF start_index = 0 THEN NoValue
       ELSE
         LET span_start == find(html_text, SpanOpen, start_index)
         IN IF span_start = 0 THEN NoValue
            ELSE
              LET span_end == find(html_text, SpanClose, span_start)
                  last == IF span_end = 0 THEN Len(html_text) - 1
                          ELSE span_end - 1
              IN Str(strip(SubSeq(html_text, span_start + 1, last)))

\* value.replace(old, new), for one character old and a text new
RECURSIVE replace(_, _, _)
replace(s, old, new) ==
    IF s = <<>> THEN <<>>
    ELSE (IF Head(s) = old THEN new ELSE <<Head(s)>>)
            \o replace(Tail(s), old, new)

NormaliseText_PointFirst(value) ==
    replace(replace(value, ",", <<".">>), ".", <<>>)

\* value.replace(".", "").replace(",", ".")
NormaliseText(value) ==
    replace(replace(value, ".", <<>>), ",", <<".">>)

\* Lines 262-267: the value that goes into values_list.
FieldValue(value) ==
    IF value.k = "str" /\ value.v # <<>> THEN Str(NormaliseText(value.v))
    ELSE FieldNull

\* One pass of the loop of lines 261-269 for one keyword.
ExtractField ==
    /\ field_out = FieldPending
    /\ html # <<>>
    /\ field_out' = FieldValue(extract_value_after_keyword(Label, html))
    /\ UNCHANGED <<html, build, batchVars, volVars, rateVars, histVars,
                   filterVars>>

\* Characters of a value text
TextChars == {"1", ".", ",", " "}

\* Value texts: every short text, and "1.234,56" and "12,5".
FieldTexts ==
    SeqsUpTo(TextChars, MaxText)
        \cup {<<"1", ".", "2", "3", "4", ",", "5", "6">>,
              <<"1", "2", ",", "5">>}

Opt(c) == {<<>>, <<c>>}

\* Pages: the label, the opening tag, the text and the closing tag in this
\* order, each of the three marks there or not, with other text around.
FieldPages ==
    {<<"<">> \o label \o between \o open \o text \o close \o <<">">> :
        label \in Opt(Label), between \in Opt("x"), open \in Opt(SpanOpen),
        text \in FieldTexts, close \in Opt(SpanClose)}

InitField ==
    /\ html \in FieldPages
    /\ field_out = FieldPending
    /\ build = TRUE
    /\ IdleBatch
    /\ IdleVol
    /\ IdleRate
    /\ NoneSent
    /\ IdleFilter

NextField == ExtractField

SpecField == InitField /\ [][NextField]_vars

----------------------------------------------------------------------------
(* Claims about the field extraction, under SpecField *)

Digits == {"0", "1", "2", "3", "4", "5", "6", "7", "8", "9"}

DigitValue(c) ==
    CASE c = "0" -> 0 [] c = "1" -> 1 [] c = "2" -> 2 [] c = "3" -> 3
      [] c = "4" -> 4 [] c = "5" -> 5 [] c = "6" -> 6 [] c = "7" -> 7
      [] c = "8" -> 8 [] c = "9" -> 9

RECURSIVE Units(_)
Units(s) ==
    IF s = <<>> THEN 0
    ELSE 10 * Units(SubSeq(s, 1, Len(s) - 1)) + DigitValue(s[Len(s)])

\* The number that a text of digits with one decimal point spells: its
\* whole part and the digits after the point.
Spells(s, units, frac) ==
    \E p \in DOMAIN s :
        /\ s[p] = "."
        /\ \A k \in DOMAIN s : k # p => s[k] \in Digits
        /\ Units(SubSeq(s, 1, p - 1)) = units
        /\ SubSeq(s, p + 1, Len(s)) = frac

\* The text of the value span of the page, surrounding blanks removed:
\* the pages hold no digit, dot, comma or blank outside that span.
PageText ==
    LET t == SelectSeq(html, LAMBDA c : c \in TextChars \cup Digits)
        solid == {k \in DOMAIN t : t[k] # " "}
    IN IF solid = {} THEN <<>>
       ELSE SubSeq(t, CHOOSE k \in solid : \A j \in solid : k <= j,
                      CHOOSE k \in solid : \A j \in solid : k >= j)

\* The label is on the page and the opening tag of a value span after it.
HasSpan ==
    \E a, b \in DOMAIN html : a < b /\ html[a] = Label /\ html[b] = SpanOpen

NoDots(t) == SelectSeq(t, LAMBDA c : c # ".")

PointForComma(t) == [k \in DOMAIN t |-> IF t[k] = "," THEN "." ELSE t[k]]

\* C16: the value of a field is its text with every dot removed and the
\* comma turned into a point - "1.234,56" spells 1234.56 and "12,5" spells
\* 12.5 -, and a field whose label or value span is absent, or whose text
\* is empty, is null; the extraction ends in a value in every case.
C16_LocaleNormalisation ==
    field_out # FieldPending =>
        /\ (~HasSpan \/ PageText = <<>>) => field_out = FieldNull
        /\ (HasSpan /\ PageText # <<>>) =>
              /\ field_out = Str(PointForComma(NoDots(PageText)))
              /\ \A k \in DOMAIN field_out.v : field_out.v[k] # ","
        /\ (HasSpan /\ PageText = <<"1", ".", "2", "3", "4", ",", "5", "6">>)
              => Spells(field_out.v, 1234, <<"5", "6">>)
        /\ (HasSpan /\ PageText = <<"1", "2", ",", "5">>)
              => Spells(field_out.v, 12, <<"5">>)

\* The field with the text "1.234,56" has been extracted.
C16_Witness ==
    /\ HasSpan
    /\ PageText = <<"1", ".", "2", "3", "4", ",", "5", "6">>
    /\ field_out = Str(<<"1", "2", "3", "4", ".", "5", "6">>)

\* A page without the label, and a page whose span is empty, have given
\* a null field.
NullFieldReached ==
    /\ field_out = FieldNull
    /\ ~HasSpan \/ PageText = <<>>

----------------------------------------------------------------------------
(* The bounded-concurrency strategy on lists longer than the pool         *)
(* (SpecPool): extract_multiple_ISIN_parallel of src/web_scraping.py       *)
(* called on its own.                                                      *)

MaxPoolList == 6

\* The list holds the first n ISINs, and the remote site either serves
\* every page or refuses every request.
InitPool ==
    /\ \E n \in 0..MaxPoolList : list_ISIN = SubSeq(ISINNames, 1, n)
    /\ \E r \in {Typical(SomeVolume),
                 PageAnswer("exc", RawNone, RawNone, RawNone, SomeVolume)} :
          env = [k \in DOMAIN list_ISIN |-> r]
    /\ build = TRUE
    /\ pc = "par_call"
    /\ i = 1
    /\ list_results = <<>>
    /\ printed = <<>>
    /\ ret = Running
    /\ final = <<>>
    /\ fut = <<>>
    /\ par_ret = Running
    /\ IdleVol
    /\ IdleRate
    /\ NoneSent
    /\ Idle

NextPool ==
    \/ ParBegin
    \/ Submit
    \/ \E k \in DOMAIN fut : WorkerStart(k)
    \/ \E k \in DOMAIN fut : WorkerFinish(k)
    \/ \E k \in DOMAIN fut : Collect(k)
    \/ Sleep
    \/ ParReturn

SpecPool == InitPool /\ [][NextPool]_vars

\* C17: at every moment of a run of extract_multiple_ISIN_parallel at most
\* max_workers = 5 instrument extractions are in flight, whatever the
\* length of the ISIN list.
C17_AtMostFiveInFlight == Cardinality(InFlight) <= max_workers

\* All workers of the pool are busy and a further ISIN of the list waits
\* in the queue.
C17_Witness ==
    /\ Cardinality(InFlight) = max_workers
    /\ \E k \in DOMAIN fut : fut[k] = "pending"

----------------------------------------------------------------------------
(* The sequential strategy of src/src/scraping.py and the two strategies   *)
(* of src/web_scraping.py side by side (SpecBoth)                          *)

InitBoth == Init \/ InitWS

NextBoth == Next \/ NextWS

SpecBoth == InitBoth /\ [][NextBoth]_vars

\* The batch call that is running, or ran last, has gone through its list.
CallEnded == pc \in {"returned", "raised", "clean", "ws_done", "par_done"}

\* The extraction of entry k succeeds, in the module that is running.
EntrySucceeds(k) ==
    IF pc \in {"loop", "returned", "raised", "clean"} THEN Succeeds(k)
    ELSE WsSucceeds(k)

\* C18: no batch call, sequential or bounded-concurrency, retries: for
\* each entry of the ISIN list it sends the detail-page request once and
\* the volume request at most once, and an entry whose extraction failed
\* is dropped - it is not in the collected results and nothing is sent
\* for it again.
C18_NoRetry ==
    /\ \A k \in DOMAIN reqs : reqs[k].page <= 1 /\ reqs[k].vol <= 1
    /\ CallEnded =>
          /\ \A k \in DOMAIN reqs : reqs[k].page = 1
          /\ Len(list_results)
                = Cardinality({k \in DOMAIN list_ISIN : EntrySucceeds(k)})
          /\ \A k \in DOMAIN list_ISIN :
                ~EntrySucceeds(k) =>
                    Count(list_results, list_ISIN[k])
                        = Cardinality({j \in DOMAIN list_ISIN :
                                          /\ list_ISIN[j] = list_ISIN[k]
                                          /\ EntrySucceeds(j)})

\* A bounded-concurrency call has ended in which one entry failed at its
\* page request and another went through both of its requests.
C18_Witness ==
    /\ pc = "par_done"
    /\ \E k \in DOMAIN list_ISIN :
          ~WsSucceeds(k) /\ reqs[k] = [page |-> 1, vol |-> 0]
    /\ \E k \in DOMAIN list_ISIN :
          WsSucceeds(k) /\ reqs[k] = [page |-> 1, vol |-> 1]

\* The same for the sequential call of src/src/scraping.py.
SequentialNoRetryReached ==
    /\ pc = "returned"
    /\ \E k \in DOMAIN list_ISIN :
          ~Succeeds(k) /\ reqs[k] = [page |-> 1, vol |-> 0]
    /\ \E k \in DOMAIN list_ISIN :
          Succeeds(k) /\ reqs[k] = [page |-> 1, vol |-> 1]

----------------------------------------------------------------------------
(* Claims about the bounded-concurrency strategy, under SpecWS *)

\* A worker sends the request of entry k in this step.
Dispatch(k) == fut[k] = "pending" /\ fut'[k] = "running"

\* C19: between the dispatch of one instrument's request and the dispatch
\* of the next, a delay step (time.sleep(0.5)) always occurs: no request
\* goes out unless the delay has run since the request before it.
C19_DelayBetweenDispatches ==
    [][(\E k \in DOMAIN fut : Dispatch(k)) => slept]_vars

\* The bounded-concurrency call is between its first and its last line.
InParallelCall == pc \in {"submit", "collect", "sleep"}

WsRow(k) == ws_extract_single_ISIN(list_ISIN[k], env[k]).row

\* This step is the collecting loop appending the result of one finished
\* future.
CollectorAppends ==
    /\ pc = "collect"
    /\ pc' = "sleep"
    /\ \E k \in DOMAIN fut :
          /\ fut[k] = "done"
          /\ fut' = [fut EXCEPT ![k] = "yielded"]
          /\ WsSucceeds(k)
          /\ list_results' = Append(list_results, WsRow(k))

\* C20: during a bounded-concurrency call list_results only grows, and
\* only by the collecting loop appending the result of a finished future;
\* worker steps leave it alone.  When the call ends, whatever the
\* interleaving was, it holds the result of every successful extraction
\* exactly once and nothing else.
C20_SingleCollector ==
    /\ [][(InParallelCall /\ list_results' # list_results)
             => CollectorAppends]_vars
    /\ [](pc = "par_done" =>
            /\ Len(list_results)
                  = Cardinality({k \in DOMAIN list_ISIN : WsSucceeds(k)})
            /\ \A k \in DOMAIN list_ISIN :
                  WsSucceeds(k) =>
                      Occurrences(list_results, WsRow(k))
                          = Cardinality({j \in DOMAIN list_ISIN :
                                            /\ WsSucceeds(j)
                                            /\ WsRow(j) = WsRow(k)}))

\* A call has ended whose two results were collected in the reverse order
\* of the list.
C20_Witness ==
    /\ pc = "par_done"
    /\ Len(list_ISIN) >= 2
    /\ list_ISIN[1] # list_ISIN[2]
    /\ Len(list_results) >= 2
    /\ list_results[1] = WsRow(2)
    /\ list_results[2] = WsRow(1)

----------------------------------------------------------------------------
(* The Table Filter as a selection, under SpecFilter *)

\* Every record of the table is, field by field, the record of the source
\* with the same ISIN.
OnlySelected(src, table) ==
    \A j \in DOMAIN table :
        \E k \in DOMAIN src :
            /\ src[k].isin = table[j].isin
            /\ src[k] = table[j]

\* The record has a null cell in a column that the range tests read.
HasNullTested(r) ==
    \/ IsNull(r.anni_scadenza)
    \/ IsNull(r.Prezzo_ufficiale)
    \/ IsNull(r.Numero_Contratti)

\* C21: filter_df only selects and reorders: every record it returns has
\* in every field, the null ones included, the value of the record with
\* the same ISIN in the source table, and no record whose price, maturity
\* or contract count is null in the source is among the returned ones.
C21_OnlySelectsAndReorders ==
    flt_out.st = "returned" =>
        /\ OnlySelected(flt_src, flt_out.table)
        /\ \A k \in DOMAIN flt_src :
              HasNullTested(flt_src[k]) =>
                  \A j \in DOMAIN flt_out.table :
                      flt_out.table[j].isin # flt_src[k].isin

\* The same statement for filter_df of src/src/analysis.py alone.
AnalysisFilterOnlySelects ==
    (flt_fn = "analysis" /\ flt_out.st = "returned") =>
        /\ OnlySelected(flt_src, flt_out.table)
        /\ \A k \in DOMAIN flt_src :
              HasNullTested(flt_src[k]) =>
                  \A j \in DOMAIN flt_out.table :
                      flt_out.table[j].isin # flt_src[k].isin

\* filter_df of src/src/analysis.py has returned a table from a source in
\* which another record has a null price.
NullRecordDropped ==
    /\ flt_fn = "analysis"
    /\ flt_out.st = "returned"
    /\ Len(flt_out.table) >= 1
    /\ \E k \in DOMAIN flt_src : IsNull(flt_src[k].Prezzo_ufficiale)

====
